---- MODULE Spec2Model ----
(***************************************************************************)
(* faisync-rs: indexed random access into FASTA files.                     *)
(*                                                                         *)
(* The model covers the FAI line parser and FaiIndex::from_reader, the     *)
(* offset translation of FaiIndex, the two Source implementations          *)
(* (MemoryContig, FileContig) and the Fasta facade, whose reads share one  *)
(* reader behind a tokio Mutex.  Text is a sequence of one-character       *)
(* strings, file content a sequence of byte values.                        *)
(***************************************************************************)
EXTENDS Integers, Sequences, FiniteSets, TLC

VARIABLES
    file,       \* bytes of the FASTA file behind the shared reader
    layout,     \* how the file was written (used by the properties only)
    index,      \* Fasta.index: NoIndex, or the FaiIndex.entries map
    seekLimit,  \* the reader rejects a seek beyond this position
    mutex,      \* owner of the reader's Mutex, or Free
    pos,        \* position of the shared reader
    pc,         \* per caller: where its operation stands
    req,        \* per caller: the operation in flight and its arguments
    span,       \* per caller: (file_start, file_end) of the operation in flight
    result,     \* per caller: what the finished operation returned
    todo,       \* per caller: tids read_all_mmap has still to read
    acc,        \* per caller: Contigs read_all_mmap has collected so far
    faiText,    \* text handed to FaiIndex::from_reader
    built,      \* outcome of FaiIndex::from_reader
    answer      \* outcome of a get_region_offsets call on the built index

vars == <<file, layout, index, seekLimit, mutex, pos, pc, req, span, result,
          todo, acc, faiText, built, answer>>

ioVars == <<file, layout, index, seekLimit, mutex, pos, pc, req, span, result,
            todo, acc>>

faiVars == <<faiText, built, answer>>

----------------------------------------------------------------------------
(* Bounds *)

MaxLen == 4         \* longest contig, in bases

MaxLineBases == 3   \* most bases per line

MaxCut == 2         \* most bytes missing from the end of a truncated file

MaxField == 2       \* largest number written in a field of an index line

Min(a, b) == IF a < b THEN a ELSE b

Max(a, b) == IF a < b THEN b ELSE a

----------------------------------------------------------------------------
(* Text: digits, lines and the FAI line parser (parser.rs) *)

TAB == "\t"

LF == "\n"

CR == "\r"

Digits == <<"0", "1", "2", "3", "4", "5", "6", "7", "8", "9">>

IsDigit(c) == \E i \in 1..10 : Digits[i] = c

DigitVal(c) == (CHOOSE i \in 1..10 : Digits[i] = c) - 1

\* digit1: the longest non-empty prefix of ASCII digits
RECURSIVE DigitPrefixLen(_)
DigitPrefixLen(s) ==
    IF s # <<>> /\ IsDigit(Head(s)) THEN 1 + DigitPrefixLen(Tail(s)) ELSE 0

\* str::parse::<u64>: base 10.  The numbers written here have at most two
\* digits, so the overflow error of a number beyond u64 is out of reach.
RECURSIVE ParseDec(_, _)
ParseDec(s, accu) ==
    IF s = <<>> THEN accu
    ELSE ParseDec(Tail(s), accu * 10 + DigitVal(Head(s)))

Fail == [ok |-> FALSE, rest |-> <<>>, val |-> 0]

parse_u64(input) ==
    LET n == DigitPrefixLen(input)
        v == ParseDec(SubSeq(input, 1, n), 0)
    IN  IF n = 0 THEN Fail
        ELSE [ok |-> TRUE, rest |-> SubSeq(input, n + 1, Len(input)), val |-> v]

\* take_until("\t"): everything before the first tab; fails without a tab
RECURSIVE TabAt(_, _)
TabAt(s, i) ==
    IF i > Len(s) THEN 0 ELSE IF s[i] = TAB THEN i ELSE TabAt(s, i + 1)

\* char('\t')
ExpectTab(r) ==
    IF r.ok /\ r.rest # <<>> /\ Head(r.rest) = TAB
    THEN [r EXCEPT !.rest = Tail(r.rest)] ELSE Fail

\* line_ending: "\n" or "\r\n"
line_ending(s) ==
    IF s # <<>> /\ Head(s) = LF THEN TRUE
    ELSE Len(s) >= 2 /\ s[1] = CR /\ s[2] = LF

Field(r) == IF r.ok THEN parse_u64(r.rest) ELSE Fail

NoEntry == [name |-> <<>>, length |-> 0, offset |-> 0, line_bases |-> 0, line_width |-> 0]

parse_fai_line(input) ==
    LET t  == TabAt(input, 1)
        r0 == IF t = 0 THEN Fail
              ELSE [ok |-> TRUE, rest |-> SubSeq(input, t, Len(input)), val |-> 0]
        f1 == Field(ExpectTab(r0))
        f2 == Field(ExpectTab(f1))
        f3 == Field(ExpectTab(f2))
        f4 == Field(ExpectTab(f3))
    IN  IF f4.ok /\ line_ending(f4.rest)
        THEN [ok |-> TRUE,
              entry |-> [name |-> SubSeq(input, 1, t - 1), length |-> f1.val,
                         offset |-> f2.val, line_bases |-> f3.val,
                         line_width |-> f4.val]]
        ELSE [ok |-> FALSE, entry |-> NoEntry]

\* AsyncBufReadExt::lines: split at "\n", drop the "\n" and a "\r" before it;
\* a last line without "\n" is a line too
RECURSIVE LfAt(_, _)
LfAt(s, i) ==
    IF i > Len(s) THEN 0 ELSE IF s[i] = LF THEN i ELSE LfAt(s, i + 1)

StripCr(s) == IF s # <<>> /\ s[Len(s)] = CR THEN SubSeq(s, 1, Len(s) - 1) ELSE s

RECURSIVE Lines(_)
Lines(text) ==
    IF text = <<>> THEN <<>>
    ELSE LET n == LfAt(text, 1)
         IN  IF n = 0 THEN <<text>>
             ELSE <<StripCr(SubSeq(text, 1, n - 1))>>
                  \o Lines(SubSeq(text, n + 1, Len(text)))

----------------------------------------------------------------------------
(* FaiIndex (fai.rs) *)

ParseError == "ParseError"

\* HashMap::insert: a later entry of the same name replaces the earlier one
Insert(entries, e) ==
    [n \in DOMAIN entries \cup {e.name} |-> IF n = e.name THEN e ELSE entries[n]]

NoEntries == [n \in {} |-> NoEntry]

RECURSIVE ReadLines(_, _)
ReadLines(lines, entries) ==
    IF lines = <<>> THEN [ok |-> TRUE, entries |-> entries]
    ELSE LET p == parse_fai_line(Head(lines) \o <<LF>>)
         IN  IF ~p.ok THEN [ok |-> FALSE, entries |-> NoEntries]
             ELSE ReadLines(Tail(lines), Insert(entries, p.entry))

from_reader(text) == ReadLines(Lines(text), NoEntries)

NoOffsets == [tag |-> "None", lo |-> 0, hi |-> 0]

Panicked == [tag |-> "Panic", lo |-> 0, hi |-> 0]

SomeOffsets(a, b) == [tag |-> "Some", lo |-> a, hi |-> b]

\* get_region_offsets with lines counted as line_bases bytes, terminators
\* forgotten
get_region_offsets_bases(entries, chr, start, end) ==
    IF chr \notin DOMAIN entries THEN NoOffsets
    ELSE LET entry == entries[chr]
         IN  IF start >= entry.length \/ end > entry.length \/ start >= end
             THEN NoOffsets
             ELSE IF entry.line_bases = 0 THEN Panicked
             ELSE SomeOffsets(
                      entry.offset + (start \div entry.line_bases) * entry.line_bases
                          + (start % entry.line_bases),
                      entry.offset + (end \div entry.line_bases) * entry.line_bases
                          + (end % entry.line_bases))

\* u64 `/` and `%` panic on a zero divisor
get_region_offsets(entries, chr, start, end) ==
    IF chr \notin DOMAIN entries THEN NoOffsets
    ELSE LET entry == entries[chr]
         IN  IF start >= entry.length \/ end > entry.length \/ start >= end
             THEN NoOffsets
             ELSE IF entry.line_bases = 0 THEN Panicked
             ELSE LET start_line == start \div entry.line_bases
                      start_offset_in_line == start % entry.line_bases
                      start_file_offset ==
                          entry.offset + start_line * entry.line_width
                              + start_offset_in_line
                      end_line == end \div entry.line_bases
                      end_offset_in_line == end % entry.line_bases
                      end_file_offset ==
                          entry.offset + end_line * entry.line_width
                              + end_offset_in_line
                  IN  SomeOffsets(start_file_offset, end_file_offset)

get_tid_offsets(entries, tid) ==
    IF tid \notin DOMAIN entries THEN NoOffsets
    ELSE LET entry == entries[tid]
         IN  SomeOffsets(entry.offset, entry.offset + entry.length)

----------------------------------------------------------------------------
(* The files and index texts the model runs on *)

NL == 10            \* b'\n'

RET == 13           \* b'\r'

GT == 62            \* b'>'

NameA == <<"a">>

NameB == <<"b">>

NameX == <<"x">>    \* a name no index holds

Names == {NameA, NameB}

Tids == Names \cup {NameX}

\* base i (from 1) of a contig: 'A', 'B', ... for a and 'a', 'b', ... for b
Base(name, i) == (IF name = NameA THEN 64 ELSE 96) + i

BasesOf(name, n) == [i \in 1..n |-> Base(name, i)]

RECURSIVE Wrap(_, _, _)
Wrap(bases, lineBases, term) ==
    IF bases = <<>> THEN <<>>
    ELSE LET k == Min(lineBases, Len(bases))
         IN  SubSeq(bases, 1, k) \o term
             \o Wrap(SubSeq(bases, k + 1, Len(bases)), lineBases, term)

Header(name, term) == <<GT, Base(name, 1)>> \o term

Layouts ==
    [lenA : 1..MaxLen, lenB : {0, 2}, lineBases : 1..MaxLineBases,
     term : {<<NL>>, <<RET, NL>>}, cut : 0..MaxCut]

BodyOf(l, name) ==
    Wrap(BasesOf(name, IF name = NameA THEN l.lenA ELSE l.lenB), l.lineBases, l.term)

WholeFile(l) ==
    Header(NameA, l.term) \o BodyOf(l, NameA)
        \o Header(NameB, l.term) \o BodyOf(l, NameB)

FileOf(l) == SubSeq(WholeFile(l), 1, Len(WholeFile(l)) - l.cut)

OffsetOf(l, name) ==
    IF name = NameA THEN Len(Header(NameA, l.term))
    ELSE Len(Header(NameA, l.term)) + Len(BodyOf(l, NameA))
             + Len(Header(NameB, l.term))

RECURSIVE Dec(_)
Dec(n) == IF n < 10 THEN <<Digits[n + 1]>> ELSE Dec(n \div 10) \o <<Digits[(n % 10) + 1]>>

FaiLine(name, length, offset, lineBases, lineWidth) ==
    name \o <<TAB>> \o Dec(length) \o <<TAB>> \o Dec(offset) \o <<TAB>>
        \o Dec(lineBases) \o <<TAB>> \o Dec(lineWidth)

\* the index `samtools faidx` style: one line per contig of the layout
FaiTextOf(l) ==
    FaiLine(NameA, l.lenA, OffsetOf(l, NameA), l.lineBases, l.lineBases + Len(l.term))
        \o <<LF>>
        \o FaiLine(NameB, l.lenB, OffsetOf(l, NameB), l.lineBases,
                   l.lineBases + Len(l.term))
        \o <<LF>>

----------------------------------------------------------------------------
(* Values returned by the operations *)

NoFAIDX == "NoFAIDX"

InvalidRegion == "InvalidRegion"

Io == "Io"

Res(tag, err, val, lens, contigs) ==
    [tag |-> tag, err |-> err, val |-> val, lens |-> lens, contigs |-> contigs]

NoRes == Res("-", "", <<>>, {}, {})

OkStr(s) == Res("Ok", "", s, {}, {})               \* Ok(String)

Err(e) == Res("Err", e, <<>>, {}, {})              \* Err(error::Error)

SomeStr(s) == Res("Some", "", s, {}, {})           \* Some(String)

NoneRes == Res("None", "", <<>>, {}, {})           \* None

OkLens(l) == Res("Ok", "", <<>>, l, {})            \* Ok(Vec<(String, u64)>)

OkContigs(cs) == Res("Ok", "", <<>>, {}, cs)       \* Ok(Contig), Ok(HashMap)

PanicRes == Res("Panic", "", <<>>, {}, {})         \* the call panicked

MemoryContig(tid, sequence) == [tid |-> tid, kind |-> "Memory", sequence |-> sequence]

\* its index and reader are the facade's (Arc::clone)
FileContig(tid) == [tid |-> tid, kind |-> "File", sequence |-> <<>>]

IsBaseByte(b) == b # NL /\ b # RET

\* buf.into_iter().filter(|&b| b != b'\n' && b != b'\r').map(|b| b as char)
Decode(buf) == SelectSeq(buf, IsBaseByte)

----------------------------------------------------------------------------
(* Callers and the operations they run *)

Callers == {1, 2}

Free == 0

InFlight == {"lock", "seek", "read"}

FacadeOps ==
    {"Fasta::read_region", "Fasta::tid_lengths", "Fasta::read_all_mmap",
     "Fasta::read_all_io", "Fasta::read_mmap_tid", "Fasta::read_io_tid"}

Req(op, tid, start, end) == [op |-> op, tid |-> tid, start |-> start, end |-> end]

NoReq == Req("-", <<>>, 0, 0)

\* the methods of Fasta borrow it (&mut self, &self): one at a time
FacadeFree(p) ==
    \A q \in Callers \ {p} : ~(pc[q] \in InFlight /\ req[q].op \in FacadeOps)

\* coordinates a caller passes: up to one past the end of contig a
Coords == 0..(layout.lenA + 1)

Plan(early, sp) == [early |-> early, span |-> sp]

OfOffsets(off, whenNone) ==
    IF off.tag = "Some" THEN Plan(NoRes, off)
    ELSE IF off.tag = "Panic" THEN Plan(PanicRes, NoOffsets)
    ELSE Plan(whenNone, NoOffsets)

\* read_region that resolves the region before it looks for the index
region_span_region_first(ix, tid, start, end) ==
    LET off == get_region_offsets(ix.entries, tid, start, end)
    IN  IF off.tag # "Some" THEN Plan(Err(InvalidRegion), NoOffsets)
        ELSE IF ~ix.some THEN Plan(Err(NoFAIDX), NoOffsets)
        ELSE Plan(NoRes, off)

\* Fasta::read_region, up to the lock
region_span(ix, tid, start, end) ==
    IF ~ix.some THEN Plan(Err(NoFAIDX), NoOffsets)
    ELSE OfOffsets(get_region_offsets(ix.entries, tid, start, end), Err(InvalidRegion))

\* Fasta::read_mmap_tid, up to the lock
tid_span(ix, tid) ==
    IF ~ix.some THEN Plan(Err(NoFAIDX), NoOffsets)
    ELSE OfOffsets(get_tid_offsets(ix.entries, tid), Err(InvalidRegion))

\* FileContig::read_region, up to the lock
file_region_span(ix, tid, start, end) ==
    IF ~ix.some THEN Plan(NoneRes, NoOffsets)
    ELSE OfOffsets(get_region_offsets(ix.entries, tid, start, end), NoneRes)

\* FileContig::sequence, up to the lock
file_tid_span(ix, tid) ==
    IF ~ix.some THEN Plan(NoneRes, NoOffsets)
    ELSE OfOffsets(get_tid_offsets(ix.entries, tid), NoneRes)

\* the call returns at once with plan.early, or goes on to lock the reader
Start(p, r, plan) ==
    /\ req' = [req EXCEPT ![p] = r]
    /\ span' = [span EXCEPT ![p] = plan.span]
    /\ result' = [result EXCEPT ![p] = plan.early]
    /\ pc' = [pc EXCEPT ![p] = IF plan.early = NoRes THEN "lock" ELSE "done"]
    /\ UNCHANGED <<file, layout, index, seekLimit, mutex, pos, faiVars>>

FastaReadRegion(p) ==
    /\ pc[p] = "idle" /\ FacadeFree(p)
    /\ \E tid \in Tids, start \in Coords, end \in Coords :
          Start(p, Req("Fasta::read_region", tid, start, end),
                region_span(index, tid, start, end))
    /\ UNCHANGED <<todo, acc>>

TidLengths(p) ==
    /\ pc[p] = "idle" /\ FacadeFree(p)
    /\ Start(p, Req("Fasta::tid_lengths", <<>>, 0, 0),
             Plan(IF ~index.some THEN Err(NoFAIDX)
                  ELSE OkLens({<<n, index.entries[n].length>> : n \in DOMAIN index.entries}),
                  NoOffsets))
    /\ UNCHANGED <<todo, acc>>

ReadMmapTid(p) ==
    /\ pc[p] = "idle" /\ FacadeFree(p)
    /\ \E tid \in Tids :
          Start(p, Req("Fasta::read_mmap_tid", tid, 0, 0), tid_span(index, tid))
    /\ UNCHANGED <<todo, acc>>

ReadIoTid(p) ==
    /\ pc[p] = "idle" /\ FacadeFree(p)
    /\ \E tid \in Tids :
          Start(p, Req("Fasta::read_io_tid", tid, 0, 0),
                Plan(OkContigs({FileContig(tid)}), NoOffsets))
    /\ UNCHANGED <<todo, acc>>

\* the loop over index.entries.keys(), in any order; each turn is read_mmap_tid
ReadAllMmap(p) ==
    /\ pc[p] = "idle" /\ FacadeFree(p)
    /\ IF ~index.some
       THEN /\ Start(p, Req("Fasta::read_all_mmap", <<>>, 0, 0),
                     Plan(Err(NoFAIDX), NoOffsets))
            /\ UNCHANGED <<todo, acc>>
       ELSE IF DOMAIN index.entries = {}
       THEN /\ Start(p, Req("Fasta::read_all_mmap", <<>>, 0, 0),
                     Plan(OkContigs({}), NoOffsets))
            /\ UNCHANGED <<todo, acc>>
       ELSE \E tid \in DOMAIN index.entries :
               /\ Start(p, Req("Fasta::read_all_mmap", tid, 0, 0), tid_span(index, tid))
               /\ todo' = [todo EXCEPT ![p] = DOMAIN index.entries \ {tid}]
               /\ acc' = [acc EXCEPT ![p] = {}]

\* the loop over index.entries.keys(); read_io_tid never waits
ReadAllIo(p) ==
    /\ pc[p] = "idle" /\ FacadeFree(p)
    /\ Start(p, Req("Fasta::read_all_io", <<>>, 0, 0),
             Plan(IF ~index.some THEN Err(NoFAIDX)
                  ELSE OkContigs({FileContig(t) : t \in DOMAIN index.entries}),
                  NoOffsets))
    /\ UNCHANGED <<todo, acc>>

\* Contig::sequence / Contig::read_region forward to the Source of a Contig the
\* caller was handed
Handed(p, kind) ==
    IF pc[p] = "done" THEN {c \in result[p].contigs : c.kind = kind} ELSE {}

MemorySequence(p) ==
    /\ \E c \in Handed(p, "Memory") :
          Start(p, Req("MemoryContig::sequence", c.tid, 0, 0),
                Plan(SomeStr(c.sequence), NoOffsets))
    /\ UNCHANGED <<todo, acc>>

memory_read_region(sequence, start, end) ==
    IF end > Len(sequence) \/ start > end THEN NoneRes
    ELSE SomeStr(SubSeq(sequence, start + 1, end))

MemoryReadRegion(p) ==
    /\ \E c \in Handed(p, "Memory"), start \in Coords, end \in Coords :
          Start(p, Req("MemoryContig::read_region", c.tid, start, end),
                Plan(memory_read_region(c.sequence, start, end), NoOffsets))
    /\ UNCHANGED <<todo, acc>>

FileSequence(p) ==
    /\ \E c \in Handed(p, "File") :
          Start(p, Req("FileContig::sequence", c.tid, 0, 0),
                file_tid_span(index, c.tid))
    /\ UNCHANGED <<todo, acc>>

FileReadRegion(p) ==
    /\ \E c \in Handed(p, "File"), start \in Coords, end \in Coords :
          Start(p, Req("FileContig::read_region", c.tid, start, end),
                file_region_span(index, c.tid, start, end))
    /\ UNCHANGED <<todo, acc>>

----------------------------------------------------------------------------
(* The steps behind self.reader.lock().await *)

IoFailure(op) == IF op \in FacadeOps THEN Err(Io) ELSE NoneRes

\* the operation returns r; its MutexGuard, if it holds one, is dropped
Finish(p, r) ==
    /\ pc' = [pc EXCEPT ![p] = "done"]
    /\ result' = [result EXCEPT ![p] = r]
    /\ span' = [span EXCEPT ![p] = NoOffsets]
    /\ mutex' = IF mutex = p THEN Free ELSE mutex
    /\ todo' = [todo EXCEPT ![p] = {}]
    /\ acc' = [acc EXCEPT ![p] = {}]
    /\ UNCHANGED req

\* a lock that is taken without waiting for its holder
Lock_no_wait(p) ==
    /\ pc[p] = "lock"
    /\ mutex' = p
    /\ pc' = [pc EXCEPT ![p] = "seek"]
    /\ UNCHANGED <<file, layout, index, seekLimit, pos, req, span, result,
                   todo, acc, faiVars>>

\* self.reader.lock().await: the caller waits until the Mutex is free
Lock(p) ==
    /\ pc[p] = "lock"
    /\ mutex = Free
    /\ mutex' = p
    /\ pc' = [pc EXCEPT ![p] = "seek"]
    /\ UNCHANGED <<file, layout, index, seekLimit, pos, req, span, result, todo, acc, faiVars>>

\* a seek by SeekFrom::Current(file_start), from where the reader stands
Seek_from_current(p) ==
    /\ pc[p] = "seek"
    /\ IF pos + span[p].lo > seekLimit
       THEN /\ Finish(p, IoFailure(req[p].op))
            /\ UNCHANGED pos
       ELSE /\ pos' = pos + span[p].lo
            /\ pc' = [pc EXCEPT ![p] = "read"]
            /\ UNCHANGED <<mutex, req, span, result, todo, acc>>
    /\ UNCHANGED <<file, layout, index, seekLimit, faiVars>>

\* reader.seek(SeekFrom::Start(file_start)).await
Seek(p) ==
    /\ pc[p] = "seek"
    /\ IF span[p].lo > seekLimit
       THEN /\ Finish(p, IoFailure(req[p].op))
            /\ UNCHANGED pos
       ELSE /\ pos' = span[p].lo
            /\ pc' = [pc EXCEPT ![p] = "read"]
            /\ UNCHANGED <<mutex, req, span, result, todo, acc>>
    /\ UNCHANGED <<file, layout, index, seekLimit, faiVars>>

\* what read_exact filled the buffer with
Buffer(at, n) == SubSeq(file, at + 1, at + n)

\* one more turn of read_all_mmap's loop, or its end
NextTid(p, contig) ==
    IF todo[p] = {}
    THEN Finish(p, OkContigs(acc[p] \cup {contig}))
    ELSE \E tid \in todo[p] :
            /\ todo' = [todo EXCEPT ![p] = todo[p] \ {tid}]
            /\ acc' = [acc EXCEPT ![p] = acc[p] \cup {contig}]
            /\ req' = [req EXCEPT ![p].tid = tid]
            /\ span' = [span EXCEPT ![p] = tid_span(index, tid).span]
            /\ pc' = [pc EXCEPT ![p] = "lock"]
            /\ mutex' = Free
            /\ UNCHANGED result

\* the code after read_exact, by operation
Complete(p, buf) ==
    LET op == req[p].op
    IN  IF op = "Fasta::read_region" THEN Finish(p, OkStr(Decode(buf)))
        ELSE IF op = "Fasta::read_mmap_tid"
        THEN Finish(p, OkContigs({MemoryContig(req[p].tid, Decode(buf))}))
        ELSE IF op = "Fasta::read_all_mmap"
        THEN NextTid(p, MemoryContig(req[p].tid, Decode(buf)))
        ELSE Finish(p, SomeStr(Decode(buf)))

\* let mut buf = vec![0; file_end - file_start]; reader.read_exact(&mut buf).await
ReadExact(p) ==
    /\ pc[p] = "read"
    /\ LET n == span[p].hi - span[p].lo
       IN  IF pos + n <= Len(file)
           THEN /\ pos' = pos + n
                /\ Complete(p, Buffer(pos, n))
           ELSE /\ pos' = Max(pos, Len(file))
                /\ Finish(p, IoFailure(req[p].op))
    /\ UNCHANGED <<file, layout, index, seekLimit, faiVars>>

\* where a seek or read dropped half way may leave the reader
Abandoned(p) ==
    IF pc[p] = "seek" THEN {pos} \cup {x \in {span[p].lo} : x <= seekLimit}
    ELSE IF pc[p] = "read"
    THEN {x \in pos..(pos + span[p].hi - span[p].lo) : x <= Max(pos, Len(file))}
    ELSE {pos}

\* a dropped future whose guard is never released
Cancel_leak(p) ==
    /\ pc[p] \in InFlight
    /\ pc' = [pc EXCEPT ![p] = "idle"]
    /\ req' = [req EXCEPT ![p] = NoReq]
    /\ span' = [span EXCEPT ![p] = NoOffsets]
    /\ result' = [result EXCEPT ![p] = NoRes]
    /\ todo' = [todo EXCEPT ![p] = {}]
    /\ acc' = [acc EXCEPT ![p] = {}]
    /\ pos' \in Abandoned(p)
    /\ UNCHANGED <<file, layout, index, seekLimit, mutex, faiVars>>

\* the caller drops the future at one of its await points
Cancel(p) ==
    /\ pc[p] \in InFlight
    /\ pc' = [pc EXCEPT ![p] = "idle"]
    /\ req' = [req EXCEPT ![p] = NoReq]
    /\ span' = [span EXCEPT ![p] = NoOffsets]
    /\ result' = [result EXCEPT ![p] = NoRes]
    /\ todo' = [todo EXCEPT ![p] = {}]
    /\ acc' = [acc EXCEPT ![p] = {}]
    /\ mutex' = IF mutex = p THEN Free ELSE mutex
    /\ pos' \in Abandoned(p)
    /\ UNCHANGED <<file, layout, index, seekLimit, faiVars>>

\* the caller is done with what the operation returned
Return(p) ==
    /\ pc[p] = "done"
    /\ pc' = [pc EXCEPT ![p] = "idle"]
    /\ req' = [req EXCEPT ![p] = NoReq]
    /\ result' = [result EXCEPT ![p] = NoRes]
    /\ UNCHANGED <<file, layout, index, seekLimit, mutex, pos, span, todo,
                   acc, faiVars>>

----------------------------------------------------------------------------
(* Fasta::from_reader and the specifications *)

NotBuilt == [status |-> "none", entries |-> NoEntries]

BuiltFrom(text) ==
    LET r == from_reader(text)
    IN  [status |-> IF r.ok THEN "ok" ELSE ParseError, entries |-> r.entries]

NoAnswer == [chr |-> <<>>, start |-> 0, end |-> 0, out |-> NoOffsets]

\* Fasta::from_reader(reader, fai_reader) on the file of layout l
Opened(l, attached, lim, running) ==
    /\ layout = l
    /\ file = FileOf(l)
    /\ faiText = IF attached THEN FaiTextOf(l) ELSE <<>>
    /\ built = IF attached THEN BuiltFrom(faiText) ELSE NotBuilt
    /\ built.status # ParseError
    /\ index = [some |-> attached, entries |-> built.entries]
    /\ seekLimit = lim
    /\ answer = NoAnswer
    /\ mutex = Free
    /\ pos = 0
    /\ pc = [p \in Callers |-> IF p \in running THEN "idle" ELSE "off"]
    /\ req = [p \in Callers |-> NoReq]
    /\ span = [p \in Callers |-> NoOffsets]
    /\ result = [p \in Callers |-> NoRes]
    /\ todo = [p \in Callers |-> {}]
    /\ acc = [p \in Callers |-> {}]

\* a reader that takes every seek
Unlimited(l) == Len(WholeFile(l))

\* a reader that takes every seek, and one that rejects seeks into contig b
SeekLimits(l) == {Unlimited(l), OffsetOf(l, NameB)}

\* one caller; every layout, whole or truncated, with and without an index
Init ==
    \E l \in Layouts :
        \/ /\ l.cut = 0
           /\ \E lim \in SeekLimits(l) : Opened(l, TRUE, lim, {1})
        \/ /\ l.cut > 0
           /\ Opened(l, TRUE, Unlimited(l), {1})
        \/ /\ l.cut = 0
           /\ Opened(l, FALSE, Unlimited(l), {1})

ConcLen == 1        \* length of contig a in the files concurrent callers share

\* two callers on one Fasta and its Contigs; one base per line, b of two lines
InitConc ==
    \E l \in Layouts :
        /\ l.lenA = ConcLen /\ l.lenB = 2 /\ l.lineBases = 1 /\ l.term = <<NL>>
        /\ \/ l.cut = 0 /\ \E lim \in SeekLimits(l) : Opened(l, TRUE, lim, Callers)
           \/ l.cut = 1 /\ Opened(l, TRUE, Unlimited(l), Callers)

Step(p) ==
    \/ FastaReadRegion(p)
    \/ TidLengths(p)
    \/ ReadAllMmap(p)
    \/ ReadAllIo(p)
    \/ ReadMmapTid(p)
    \/ ReadIoTid(p)
    \/ MemorySequence(p)
    \/ MemoryReadRegion(p)
    \/ FileSequence(p)
    \/ FileReadRegion(p)
    \/ Lock(p)
    \/ Seek(p)
    \/ ReadExact(p)
    \/ Cancel(p)
    \/ Return(p)

Next == \E p \in Callers : Step(p)

Spec == Init /\ [][Next]_vars

ConcSpec == InitConc /\ [][Next]_vars

\* two callers; the file is cut short, so that a read of all of b is a short
\* read, and the reader rejects seeks beyond the first base of b
InitLive ==
    \E l \in Layouts :
        /\ l.lenA = ConcLen /\ l.lenB = 2 /\ l.lineBases = 1 /\ l.term = <<NL>>
        /\ l.cut = 1
        /\ Opened(l, TRUE, OffsetOf(l, NameB), Callers)

\* tokio's Mutex hands the lock to waiters in turn, and the reader's I/O ends
LiveSpec ==
    /\ InitLive
    /\ [][Next]_vars
    /\ \A p \in Callers : SF_vars(Lock(p)) /\ WF_vars(Seek(p)) /\ WF_vars(ReadExact(p))

----------------------------------------------------------------------------
(* FaiIndex::from_reader on index texts of every shape *)

FieldVals == 0..MaxField

GoodLines ==
    {FaiLine(n, l, o, b, w) : n \in Names, l \in FieldVals, o \in FieldVals,
                              b \in FieldVals, w \in FieldVals}

\* what may follow a first line that ends in "\n": nothing, a second entry of
\* the same name, a line of three fields, one of six, a field that is no number
SecondLines ==
    {<<>>,
     FaiLine(NameA, 2, 0, 1, 2) \o <<LF>>,
     <<"a", TAB, "1", TAB, "2", LF>>,
     FaiLine(NameA, 1, 0, 1, 2) \o <<TAB, "5", LF>>,
     <<"a", TAB, "1", TAB, "x", TAB, "1", TAB, "2", LF>>}

FaiTexts ==
    {g \o <<LF>> \o s : g \in GoodLines, s \in SecondLines}
        \cup {g \o <<CR, LF>> : g \in GoodLines}
        \cup GoodLines

Closed ==
    /\ layout = [lenA |-> 1, lenB |-> 0, lineBases |-> 1, term |-> <<NL>>, cut |-> 0]
    /\ file = <<>>
    /\ index = [some |-> FALSE, entries |-> NoEntries]
    /\ seekLimit = 0
    /\ mutex = Free
    /\ pos = 0
    /\ pc = [p \in Callers |-> "off"]
    /\ req = [p \in Callers |-> NoReq]
    /\ span = [p \in Callers |-> NoOffsets]
    /\ result = [p \in Callers |-> NoRes]
    /\ todo = [p \in Callers |-> {}]
    /\ acc = [p \in Callers |-> {}]

InitFai ==
    /\ faiText \in FaiTexts
    /\ built = [status |-> "pending", entries |-> NoEntries]
    /\ answer = NoAnswer
    /\ Closed

FaiFromReader ==
    /\ built.status = "pending"
    /\ built' = BuiltFrom(faiText)
    /\ UNCHANGED <<faiText, answer, ioVars>>

GetRegionOffsets ==
    /\ built.status = "ok"
    /\ \E chr \in Tids, start \in FieldVals, end \in FieldVals :
          answer' = [chr |-> chr, start |-> start, end |-> end,
                     out |-> get_region_offsets(built.entries, chr, start, end)]
    /\ UNCHANGED <<faiText, built, ioVars>>

NextFai == FaiFromReader \/ GetRegionOffsets

FaiSpec == InitFai /\ [][NextFai]_vars

----------------------------------------------------------------------------
(* What the properties speak of *)

LenOf(name) == IF name = NameA THEN layout.lenA ELSE layout.lenB

\* the bases of a contig as they were written to the file
Bases(name) == BasesOf(name, LenOf(name))

\* the file is whole, line_width bytes for every line, and no seek is rejected
Sound == layout.cut = 0 /\ seekLimit = Unlimited(layout)

\* byte of base coordinate c on the grid of lineBases bases per line
Grid(name, c) ==
    OffsetOf(layout, name)
        + (c \div layout.lineBases) * (layout.lineBases + Len(layout.term))
        + (c % layout.lineBases)

Done(p, op) == pc[p] = "done" /\ req[p].op = op

RegionOps == {"Fasta::read_region", "FileContig::read_region"}

ValidRegion(r) == r.tid \in Names /\ r.start < r.end /\ r.end <= LenOf(r.tid)

\* a read of the byte range sp by an operation that has the reader to itself
ReadAlone(sp) ==
    IF sp.lo <= seekLimit /\ sp.hi <= Len(file)
    THEN [ok |-> TRUE, val |-> Decode(SubSeq(file, sp.lo + 1, sp.hi))]
    ELSE [ok |-> FALSE, val |-> <<>>]

\* what request r returns when no other operation runs
Alone(r) ==
    LET plan == IF r.op = "Fasta::read_region"
                THEN region_span(index, r.tid, r.start, r.end)
                ELSE IF r.op = "FileContig::read_region"
                THEN file_region_span(index, r.tid, r.start, r.end)
                ELSE IF r.op = "FileContig::sequence"
                THEN file_tid_span(index, r.tid)
                ELSE tid_span(index, r.tid)
        got == ReadAlone(plan.span)
    IN  IF r.op = "Fasta::read_all_mmap"
        THEN IF ~index.some THEN Err(NoFAIDX)
             ELSE IF \A t \in DOMAIN index.entries : ReadAlone(tid_span(index, t).span).ok
             THEN OkContigs({MemoryContig(t, ReadAlone(tid_span(index, t).span).val) :
                                t \in DOMAIN index.entries})
             ELSE Err(Io)
        ELSE IF plan.early # NoRes THEN plan.early
        ELSE IF ~got.ok THEN IoFailure(r.op)
        ELSE IF r.op = "Fasta::read_region" THEN OkStr(got.val)
        ELSE IF r.op = "Fasta::read_mmap_tid"
        THEN OkContigs({MemoryContig(r.tid, got.val)})
        ELSE SomeStr(got.val)

ReadingOps ==
    {"Fasta::read_region", "FileContig::read_region", "FileContig::sequence",
     "Fasta::read_mmap_tid", "Fasta::read_all_mmap"}

----------------------------------------------------------------------------
(* Properties *)

\* C1: for an indexed contig and 0 <= start < end <= length, get_region_offsets
\* returns Some((byte_start, byte_end)) with byte_end > byte_start, each the grid
\* position offset + (coord / line_bases) * line_width + coord % line_bases, and
\* over a whole file read_region (Fasta and FileContig) returns the end - start
\* bases start..end of the contig, none of them '\n' or '\r'.
C1_RegionRead ==
    \A p \in Callers :
        (req[p].op \in RegionOps /\ index.some /\ ValidRegion(req[p])) =>
            LET r == req[p]
                off == get_region_offsets(index.entries, r.tid, r.start, r.end)
            IN  /\ off.tag = "Some"
                /\ off.hi > off.lo
                /\ off.lo = Grid(r.tid, r.start)
                /\ off.hi = Grid(r.tid, r.end)
                /\ pc[p] \in InFlight => span[p] = off
                /\ (pc[p] = "done" /\ Sound) =>
                      /\ result[p].tag = IF r.op = "Fasta::read_region"
                                         THEN "Ok" ELSE "Some"
                      /\ Len(result[p].val) = r.end - r.start
                      /\ \A i \in 1..Len(result[p].val) :
                            result[p].val[i] \notin {NL, RET}
                      /\ result[p].val = SubSeq(Bases(r.tid), r.start + 1, r.end)

\* a read that starts on the first line and ends at the contig's end, which is
\* the end of a full line after the first, in a file with "\r\n" line ends
C1_Witness ==
    \E p \in Callers :
        /\ pc[p] = "done" /\ Sound /\ index.some
        /\ req[p].op \in RegionOps /\ req[p].tid = NameA
        /\ layout.term = <<RET, NL>>
        /\ req[p].start < layout.lineBases /\ layout.lineBases < req[p].end
        /\ req[p].end = layout.lenA /\ layout.lenA % layout.lineBases = 0
        /\ result[p].val = SubSeq(Bases(NameA), req[p].start + 1, req[p].end)

\* C2: get_tid_offsets returns (offset, offset + length), and that byte range
\* covers the whole stored contig: over a whole file FileContig::sequence and
\* the MemoryContig of read_mmap_tid hold all `length` bases of the contig.
C2_WholeContig ==
    \A p \in Callers :
        (Sound /\ index.some /\ pc[p] = "done" /\ req[p].tid \in Names) =>
            /\ req[p].op = "FileContig::sequence" =>
                  result[p] = SomeStr(Bases(req[p].tid))
            /\ req[p].op = "Fasta::read_mmap_tid" =>
                  result[p] = OkContigs({MemoryContig(req[p].tid, Bases(req[p].tid))})

\* C3: a request with start >= end, or end > length, or a name the index does
\* not hold, gets Err(InvalidRegion) from Fasta::read_region and None from
\* read_region of either Source; none is answered with a string.
C3_InvalidRegion ==
    \A p \in Callers :
        (pc[p] = "done" /\ index.some /\ ~ValidRegion(req[p])) =>
            /\ req[p].op = "Fasta::read_region" => result[p] = Err(InvalidRegion)
            /\ req[p].op \in {"FileContig::read_region", "MemoryContig::read_region"}
                  => result[p] = NoneRes

\* C4: a MemoryContig (from read_mmap_tid) and a FileContig (from read_io_tid)
\* of the same contig return the same from read_region and from sequence.
C4_SourcesAgree ==
    \A p \in Callers :
        (pc[p] = "done" /\ Sound) =>
            /\ req[p].op = "MemoryContig::read_region" =>
                  result[p] = Alone([req[p] EXCEPT !.op = "FileContig::read_region"])
            /\ req[p].op = "MemoryContig::sequence" =>
                  result[p] = Alone([req[p] EXCEPT !.op = "FileContig::sequence"])

\* C6: without an index read_region (whatever its arguments), tid_lengths,
\* read_all_mmap and read_all_io fail with NoFAIDX, and neither take the
\* reader's lock nor move the reader.
C6_NoIndex ==
    ~index.some =>
        /\ mutex = Free
        /\ pos = 0
        /\ \A p \in Callers :
              req[p].op \in {"Fasta::read_region", "Fasta::tid_lengths",
                             "Fasta::read_all_mmap", "Fasta::read_all_io"}
                  => pc[p] = "done" /\ result[p] = Err(NoFAIDX)

C6_Witness ==
    \E p \in Callers :
        /\ ~index.some
        /\ Done(p, "Fasta::read_region") /\ ValidRegion(req[p])
        /\ result[p] = Err(NoFAIDX)

\* C7: for a name the attached index does not hold, read_mmap_tid and
\* read_io_tid both return Err(InvalidRegion), and no Contig.
C7_UnknownTid ==
    \A p \in Callers :
        (pc[p] = "done" /\ index.some /\ req[p].tid \notin DOMAIN index.entries
            /\ req[p].op \in {"Fasta::read_mmap_tid", "Fasta::read_io_tid"})
            => result[p] = Err(InvalidRegion)

\* C5: with operations interleaved on one reader, the Mutex is held from
\* before an operation's seek until after its read_exact, nothing moves the
\* reader between the two, and every operation returns what it returns when it
\* runs alone.
C5_SeekReadAtomic ==
    \A p \in Callers :
        /\ pc[p] \in {"seek", "read"} => mutex = p
        /\ pc[p] = "read" => pos = span[p].lo
        /\ (pc[p] = "done" /\ req[p].op \in ReadingOps) => result[p] = Alone(req[p])

\* one caller holds the lock between its seek and its read while the other,
\* asking for other bytes, waits for the lock
C5_Witness ==
    \E p \in Callers, q \in Callers :
        /\ p # q
        /\ pc[p] = "read" /\ pc[q] = "lock"
        /\ span[p] # span[q]
        /\ req[p].op = "FileContig::read_region" /\ req[q].op = "Fasta::read_region"

\* C8: two read_region calls of the same kind with the same (name, start, end)
\* return the same, whatever ran on the reader between them and wherever that
\* left the reader.
C8_SameArgsSameResult ==
    \A p \in Callers, q \in Callers :
        (pc[p] = "done" /\ pc[q] = "done" /\ req[p] = req[q]
            /\ req[p].op \in RegionOps) => result[p] = result[q]

\* both callers hold the bases of the same region, on the second line of b
C8_Witness ==
    \E p \in Callers, q \in Callers :
        /\ p # q
        /\ pc[p] = "done" /\ pc[q] = "done" /\ req[p] = req[q]
        /\ req[p].op = "Fasta::read_region"
        /\ result[p].tag = "Ok" /\ result[p].val # <<>>
        /\ req[p].tid = NameB /\ req[p].start >= layout.lineBases
        /\ result[q] = result[p]

\* C9: an operation that took the reader's Mutex gives it back however it
\* ends (result, failed seek, short read, dropped future): only an operation
\* between its lock and its return holds the Mutex, and a caller that waits for
\* the Mutex does not wait for ever.
C9_LockReleased ==
    /\ [](\A p \in Callers : mutex = p => pc[p] \in {"seek", "read"})
    /\ \A p \in Callers : (pc[p] = "lock") ~> (pc[p] # "lock")

\* a short read has ended one caller's operation and the other caller has the lock
C9_Witness ==
    \E p \in Callers, q \in Callers :
        /\ p # q
        /\ Done(p, "Fasta::read_region") /\ result[p] = Err(Io)
        /\ span[p] = NoOffsets /\ req[p].start = 0
        /\ mutex = q /\ pc[q] = "seek"

\* C10: every entry of an index that from_reader built has
\* line_width >= line_bases >= 1, and get_region_offsets on it returns None or
\* Some and never divides by zero.
C10_EntriesWellFormed ==
    /\ built.status = "ok" =>
          \A n \in DOMAIN built.entries :
              /\ built.entries[n].line_bases >= 1
              /\ built.entries[n].line_width >= built.entries[n].line_bases
    /\ answer.out.tag \in {"None", "Some"}

====
